---- MODULE Spec2Model ----
(***************************************************************************)
(* Model of the scheduling engine of the Etihad Stadium match planner:     *)
(* the referee/event registries (services/planificador.py), the validator  *)
(* (services/validador.py) and the constraint set (models/restricciones.py)*)
(*                                                                         *)
(* Timestamps are whole hours counted from midnight of day 0; the calendar *)
(* date of a timestamp is its day number.  Referees and events are         *)
(* identified by their ids; an event's resource list is a sequence of      *)
(* resource ids, in the order of the Python list.  The event registry is   *)
(* a sequence of event records, in the insertion order of the Python dict. *)
(***************************************************************************)
EXTENDS Integers, Sequences, FiniteSets, TLC

VARIABLES
    eventos,    \* PlanificadorEventos.eventos: events in dict (insertion) order
    recursos,   \* PlanificadorEventos.recursos: the ids registered
    ahora,      \* what datetime.now() returns
    caso,       \* arguments of a constraint evaluated on its own
    salida      \* result of that evaluation

vars == <<eventos, recursos, ahora, caso, salida>>

----------------------------------------------------------------------------
(* Resources (models/recurso.py) *)

PRINCIPAL == "Arbitro Principal"
LINEA == "Arbitro de Linea"
CUARTO == "Cuarto Arbitro"

Principales == {"P1", "P2"}
Lineas == {"L1", "L2", "L3", "L4"}
Cuartos == {"F1", "F2"}
\* plain Recurso objects, which are not Arbitro instances
Otros == {"X1"}

Arbitros == Principales \cup Lineas \cup Cuartos
Recursos == Arbitros \cup Otros

\* isinstance(recurso, Arbitro)
EsArbitro(r) == r \in Arbitros

\* Arbitro.tipo
Tipo(r) ==
    IF r \in Principales THEN PRINCIPAL
    ELSE IF r \in Lineas THEN LINEA
    ELSE CUARTO

\* Recurso.nombre
Nombre(r) == r

----------------------------------------------------------------------------
(* Clock and calendar primitives *)

\* datetime.date(): the calendar day of a timestamp given in hours
Fecha(t) == t \div 24

Abs(n) == IF n < 0 THEN -n ELSE n

\* the optional arguments of modificar_evento: None, or a value
None == <<>>
Some(x) == <<x>>

\* the elements of a sequence that satisfy a test, in order
Indices(s) == [i \in 1..Len(s) |-> i]

RECURSIVE Aplanar(_)
Aplanar(ss) == IF ss = <<>> THEN <<>> ELSE Head(ss) \o Aplanar(Tail(ss))

Min(S) == CHOOSE x \in S : \A y \in S : x <= y

----------------------------------------------------------------------------
(* Events (models/evento.py) *)

Evento(id, nombre, inicio, fin, lista) ==
    [id |-> id, nombre |-> nombre, inicio |-> inicio, fin |-> fin,
     recursos |-> lista]

\* a variant that only looks whether the other interval starts inside the event
se_superpone_con_inicio(ev, otra_inicio, otra_fin) ==
    ev.inicio <= otra_inicio /\ otra_inicio < ev.fin

se_superpone_con(ev, otra_inicio, otra_fin) ==
    ~(ev.fin <= otra_inicio \/ ev.inicio >= otra_fin)

contiene_recurso(ev, rid) ==
    \E i \in 1..Len(ev.recursos) : ev.recursos[i] = rid

----------------------------------------------------------------------------
(* Constraints (models/restricciones.py) and the validator                 *)
(* (services/validador.py).  A check returns [ok, mensaje]; a message is   *)
(* a tuple of a tag and the values the source interpolates into its text,  *)
(* and the empty string is <<>>.  A "; ".join of messages is the sequence  *)
(* of the messages joined.                                                 *)

DIAS_DESCANSO_ESTADIO == 2

\* a rest period one day short
DIAS_DESCANSO_ARBITROS_corto == 7 - 1

DIAS_DESCANSO_ARBITROS == 7

ARBITROS_PRINCIPALES_REQUERIDOS == 1
ARBITROS_LINEA_REQUERIDOS == 2
CUARTOS_ARBITROS_REQUERIDOS == 1

Valido == [ok |-> TRUE, mensaje |-> <<>>]
Invalido(m) == [ok |-> FALSE, mensaje |-> m]

\* conteo[tipo] after the counting loop of RestriccionCoRequisito.validar
conteo(lista, tipo) ==
    Cardinality({i \in 1..Len(lista) :
                    EsArbitro(lista[i]) /\ Tipo(lista[i]) = tipo})

\* the if/elif of one category
ErrorCategoria(lista, tipo, requeridos) ==
    LET c == conteo(lista, tipo)
    IN  IF c < requeridos
            THEN << <<"se_requiere", requeridos, tipo, c>> >>
        ELSE IF c > requeridos
            THEN << <<"solo_se_permite", requeridos, tipo, c>> >>
        ELSE <<>>

\* a variant that stops at the first category whose count is off
RestriccionCoRequisito_validar_primero(lista, fecha_inicio, fecha_fin, existentes) ==
    LET errores ==
            ErrorCategoria(lista, PRINCIPAL, ARBITROS_PRINCIPALES_REQUERIDOS)
            \o ErrorCategoria(lista, LINEA, ARBITROS_LINEA_REQUERIDOS)
            \o ErrorCategoria(lista, CUARTO, CUARTOS_ARBITROS_REQUERIDOS)
    IN  IF errores # <<>> THEN Invalido(<<Head(errores)>>) ELSE Valido

RestriccionCoRequisito_validar(lista, fecha_inicio, fecha_fin, existentes) ==
    LET errores ==
            ErrorCategoria(lista, PRINCIPAL, ARBITROS_PRINCIPALES_REQUERIDOS)
            \o ErrorCategoria(lista, LINEA, ARBITROS_LINEA_REQUERIDOS)
            \o ErrorCategoria(lista, CUARTO, CUARTOS_ARBITROS_REQUERIDOS)
    IN  IF errores # <<>> THEN Invalido(errores) ELSE Valido

\* any(r.id == arbitro.id for r in evento.recursos)
arbitro_en_evento(rid, ev) ==
    \E i \in 1..Len(ev.recursos) : ev.recursos[i] = rid

\* a variant that counts whole days of elapsed time between the two instants
_calcular_dias_transcurridos(fecha1, fecha2) == Abs(fecha1 - fecha2) \div 24

\* a variant that keeps the sign of the difference
_calcular_dias_con_signo(fecha1, fecha2) == Fecha(fecha1) - Fecha(fecha2)

_calcular_dias_diferencia(fecha1, fecha2) == Abs(Fecha(fecha1) - Fecha(fecha2))

\* the inner loop of RestriccionExclusionMutua.validar for one referee
ErroresDescanso(rid, fecha_inicio, existentes) ==
    LET choca(j) ==
            /\ arbitro_en_evento(rid, existentes[j])
            /\ _calcular_dias_diferencia(fecha_inicio, existentes[j].inicio)
                   < DIAS_DESCANSO_ARBITROS
        js == SelectSeq(Indices(existentes), choca)
    IN  [k \in 1..Len(js) |->
            <<"sin_descanso", Nombre(rid), Fecha(existentes[js[k]].inicio),
              _calcular_dias_diferencia(fecha_inicio, existentes[js[k]].inicio),
              DIAS_DESCANSO_ARBITROS>>]

RestriccionExclusionMutua_validar(lista, fecha_inicio, fecha_fin, existentes) ==
    LET errores ==
            Aplanar([i \in 1..Len(lista) |->
                        IF EsArbitro(lista[i])
                            THEN ErroresDescanso(lista[i], fecha_inicio, existentes)
                            ELSE <<>>])
    IN  IF errores # <<>> THEN Invalido(errores) ELSE Valido

\* dias_antes and dias_despues of the facility checks
dias_antes(fecha_inicio, ev) == Fecha(fecha_inicio) - Fecha(ev.fin)
dias_despues(fecha_fin, ev) == Fecha(ev.inicio) - Fecha(fecha_fin)

\* whether the loop body of the facility check returns at this event
RechazaEstadio(fecha_inicio, fecha_fin, ev) ==
    \/ se_superpone_con(ev, fecha_inicio, fecha_fin)
    \/ (0 <= dias_antes(fecha_inicio, ev)
        /\ dias_antes(fecha_inicio, ev) < DIAS_DESCANSO_ESTADIO)
    \/ (0 <= dias_despues(fecha_fin, ev)
        /\ dias_despues(fecha_fin, ev) < DIAS_DESCANSO_ESTADIO)

RestriccionDescansoEstadio_validar(lista, fecha_inicio, fecha_fin, existentes) ==
    LET js == {j \in 1..Len(existentes) :
                  RechazaEstadio(fecha_inicio, fecha_fin, existentes[j])}
    IN  IF js = {} THEN Valido
        ELSE LET ev == existentes[Min(js)]
             IN  IF se_superpone_con(ev, fecha_inicio, fecha_fin)
                     THEN Invalido(<<"conflicto_de_horario", ev.nombre, ev.inicio>>)
                 ELSE IF 0 <= dias_antes(fecha_inicio, ev)
                         /\ dias_antes(fecha_inicio, ev) < DIAS_DESCANSO_ESTADIO
                     THEN Invalido(<<"estadio_necesita_descanso",
                                     DIAS_DESCANSO_ESTADIO, Fecha(ev.inicio),
                                     dias_antes(fecha_inicio, ev)>>)
                 ELSE Invalido(<<"estadio_necesita_descanso",
                                 DIAS_DESCANSO_ESTADIO, Fecha(ev.inicio),
                                 dias_despues(fecha_fin, ev)>>)

validar_conflicto_estadio(fecha_inicio, fecha_fin, existentes) ==
    LET js == {j \in 1..Len(existentes) :
                  RechazaEstadio(fecha_inicio, fecha_fin, existentes[j])}
    IN  IF js = {} THEN Valido
        ELSE LET ev == existentes[Min(js)]
             IN  IF se_superpone_con(ev, fecha_inicio, fecha_fin)
                     THEN Invalido(<<"conflicto_de_horario_validador", ev.nombre,
                                     ev.inicio, ev.fin>>)
                 ELSE IF 0 <= dias_antes(fecha_inicio, ev)
                         /\ dias_antes(fecha_inicio, ev) < DIAS_DESCANSO_ESTADIO
                     THEN Invalido(<<"estadio_entre_partidos",
                                     DIAS_DESCANSO_ESTADIO, Fecha(ev.inicio),
                                     dias_antes(fecha_inicio, ev)>>)
                 ELSE Invalido(<<"estadio_entre_partidos",
                                 DIAS_DESCANSO_ESTADIO, Fecha(ev.inicio),
                                 dias_despues(fecha_fin, ev)>>)

validar_disponibilidad_arbitro(rid, fecha_inicio, fecha_fin, existentes) ==
    LET dias(ev) == Abs(Fecha(fecha_inicio) - Fecha(ev.inicio))
        js == {j \in 1..Len(existentes) :
                  /\ arbitro_en_evento(rid, existentes[j])
                  /\ dias(existentes[j]) < DIAS_DESCANSO_ARBITROS}
    IN  IF js = {} THEN Valido
        ELSE LET ev == existentes[Min(js)]
             IN  Invalido(<<"no_esta_disponible", Nombre(rid), Fecha(ev.inicio),
                            DIAS_DESCANSO_ARBITROS, dias(ev)>>)

\* Validador.restricciones, as built by Validador.__init__
NombreCoRequisito == "Co-requisito de Arbitros"
NombreExclusion == "Descanso de Arbitros"
NombreEstadio == "Descanso del Estadio"

ErrorRestriccion(nombre, r) ==
    IF r.ok THEN <<>> ELSE << <<"restriccion", nombre, r.mensaje>> >>

validar_restricciones(lista, fecha_inicio, fecha_fin, existentes) ==
    LET errores ==
            ErrorRestriccion(NombreCoRequisito,
                RestriccionCoRequisito_validar(lista, fecha_inicio, fecha_fin, existentes))
            \o ErrorRestriccion(NombreExclusion,
                RestriccionExclusionMutua_validar(lista, fecha_inicio, fecha_fin, existentes))
            \o ErrorRestriccion(NombreEstadio,
                RestriccionDescansoEstadio_validar(lista, fecha_inicio, fecha_fin, existentes))
    IN  [ok |-> errores = <<>>, errores |-> errores]

EnSeq(x, s) == \E i \in 1..Len(s) : s[i] = x

\* errores.append(mensaje) for each mensaje of ms that is not yet in errores
RECURSIVE AgregarSinDuplicar(_, _)
AgregarSinDuplicar(errores, ms) ==
    IF ms = <<>> THEN errores
    ELSE AgregarSinDuplicar(
            IF EnSeq(Head(ms), errores) THEN errores ELSE Append(errores, Head(ms)),
            Tail(ms))

\* a variant that returns at the first check that fails
validar_evento_completo_primero(evento, existentes) ==
    LET estadio == validar_conflicto_estadio(evento.inicio, evento.fin, existentes)
        e2 == Aplanar([i \in 1..Len(evento.recursos) |->
                  LET r == validar_disponibilidad_arbitro(
                               evento.recursos[i], evento.inicio, evento.fin,
                               existentes)
                  IN  IF EsArbitro(evento.recursos[i]) /\ ~r.ok
                          THEN <<r.mensaje>> ELSE <<>>])
        rs == validar_restricciones(
                  evento.recursos, evento.inicio, evento.fin, existentes)
        errores == IF ~estadio.ok THEN <<estadio.mensaje>>
                   ELSE IF e2 # <<>> THEN <<e2[1]>>
                   ELSE AgregarSinDuplicar(<<>>, rs.errores)
    IN  [ok |-> errores = <<>>, errores |-> errores]

validar_evento_completo(evento, existentes) ==
    LET estadio == validar_conflicto_estadio(evento.inicio, evento.fin, existentes)
        e1 == IF estadio.ok THEN <<>> ELSE <<estadio.mensaje>>
        arb(i) == LET r == validar_disponibilidad_arbitro(
                               evento.recursos[i], evento.inicio, evento.fin,
                               existentes)
                  IN  IF r.ok THEN <<>> ELSE <<r.mensaje>>
        e2 == Aplanar([i \in 1..Len(evento.recursos) |->
                          IF EsArbitro(evento.recursos[i]) THEN arb(i) ELSE <<>>])
        rs == validar_restricciones(
                  evento.recursos, evento.inicio, evento.fin, existentes)
        errores == AgregarSinDuplicar(e1 \o e2, rs.errores)
    IN  [ok |-> errores = <<>>, errores |-> errores]

----------------------------------------------------------------------------
(* The scheduling engine (services/planificador.py).  Each operation is a  *)
(* function of the registries and its arguments that returns the new       *)
(* registries and what the operation returns: [op, ok, vacio], where vacio *)
(* says that the message returned with the outcome is empty or absent.     *)

Resultado(evs, regs, op, ok, vacio) ==
    [eventos |-> evs, recursos |-> regs,
     ret |-> [op |-> op, ok |-> ok, vacio |-> vacio]]

\* evento_id in self.eventos
Ids(evs) == {evs[i].id : i \in 1..Len(evs)}

PosDe(evs, id) == CHOOSE i \in 1..Len(evs) : evs[i].id = id

\* self.eventos[id] = ev: a new key goes last, a known key keeps its place
DictSet(evs, ev) ==
    IF ev.id \in Ids(evs)
        THEN [evs EXCEPT ![PosDe(evs, ev.id)] = ev]
        ELSE Append(evs, ev)

\* del self.eventos[id]
DictDel(evs, id) == SelectSeq(evs, LAMBDA e : e.id # id)

\* "\n".join(errores) == ""
JoinVacio(errores) ==
    errores = <<>> \/ (Len(errores) = 1 /\ errores[1] = <<>>)

agregar_recurso(evs, regs, rid) ==
    IF rid \notin regs
        THEN Resultado(evs, regs \cup {rid}, "agregar_recurso", TRUE, TRUE)
        ELSE Resultado(evs, regs, "agregar_recurso", FALSE, TRUE)

obtener_eventos_recurso(evs, rid) ==
    SelectSeq(evs, LAMBDA e : contiene_recurso(e, rid))

\* a variant whose guard also counts an event that starts right now
eliminar_recurso_no_estricto(evs, regs, now, rid) ==
    IF rid \notin regs
        THEN Resultado(evs, regs, "eliminar_recurso", FALSE, FALSE)
    ELSE LET eventos_futuros ==
                 SelectSeq(obtener_eventos_recurso(evs, rid),
                           LAMBDA e : e.inicio >= now)
         IN  IF eventos_futuros # <<>>
                 THEN Resultado(evs, regs, "eliminar_recurso", FALSE, FALSE)
                 ELSE Resultado(evs, regs \ {rid}, "eliminar_recurso", TRUE, FALSE)

eliminar_recurso(evs, regs, now, rid) ==
    IF rid \notin regs
        THEN Resultado(evs, regs, "eliminar_recurso", FALSE, FALSE)
    ELSE LET eventos_futuros ==
                 SelectSeq(obtener_eventos_recurso(evs, rid),
                           LAMBDA e : e.inicio > now)
         IN  IF eventos_futuros # <<>>
                 THEN Resultado(evs, regs, "eliminar_recurso", FALSE, FALSE)
                 ELSE Resultado(evs, regs \ {rid}, "eliminar_recurso", TRUE, FALSE)

\* a variant that stores the event before looking at the verdict
planificar_evento_parcial(evs, regs, evento) ==
    LET v == validar_evento_completo(evento, evs)
    IN  IF ~v.ok
            THEN Resultado(DictSet(evs, evento), regs, "planificar_evento", FALSE,
                           JoinVacio(v.errores))
            ELSE Resultado(DictSet(evs, evento), regs, "planificar_evento", TRUE, FALSE)

\* a variant that validates against the registry as it was before the event
\* stored last went in
planificar_evento_sobre_copia(evs, regs, evento) ==
    LET copia == SubSeq(evs, 1, Len(evs) - 1)
        v == validar_evento_completo(evento, copia)
    IN  IF ~v.ok
            THEN Resultado(evs, regs, "planificar_evento", FALSE, JoinVacio(v.errores))
            ELSE Resultado(DictSet(evs, evento), regs, "planificar_evento", TRUE, FALSE)

planificar_evento(evs, regs, evento) ==
    LET v == validar_evento_completo(evento, evs)
    IN  IF ~v.ok
            THEN Resultado(evs, regs, "planificar_evento", FALSE, JoinVacio(v.errores))
            ELSE Resultado(DictSet(evs, evento), regs, "planificar_evento", TRUE, FALSE)

\* a variant that reports the removal and leaves the event stored
eliminar_evento_sin_borrar(evs, regs, id) ==
    IF id \notin Ids(evs)
        THEN Resultado(evs, regs, "eliminar_evento", FALSE, FALSE)
        ELSE Resultado(evs, regs, "eliminar_evento", TRUE, FALSE)

eliminar_evento(evs, regs, id) ==
    IF id \notin Ids(evs)
        THEN Resultado(evs, regs, "eliminar_evento", FALSE, FALSE)
        ELSE Resultado(DictDel(evs, id), regs, "eliminar_evento", TRUE, FALSE)

\* the temporary event of modificar_evento: what is not supplied is the original's
EventoTemp(original, nueva_fecha_inicio, nueva_fecha_fin, nuevos_recursos) ==
    Evento(original.id, original.nombre,
           IF nueva_fecha_inicio # None THEN nueva_fecha_inicio[1] ELSE original.inicio,
           IF nueva_fecha_fin # None THEN nueva_fecha_fin[1] ELSE original.fin,
           IF nuevos_recursos # None THEN nuevos_recursos[1] ELSE original.recursos)

\* a variant that validates against every stored event, the original included
modificar_evento_contra_todos(evs, regs, id, nueva_fecha_inicio, nueva_fecha_fin, nuevos_recursos) ==
    IF id \notin Ids(evs)
        THEN Resultado(evs, regs, "modificar_evento", FALSE, FALSE)
    ELSE LET evento_original == evs[PosDe(evs, id)]
             evento_temp == EventoTemp(evento_original, nueva_fecha_inicio,
                                       nueva_fecha_fin, nuevos_recursos)
             v == validar_evento_completo(evento_temp, evs)
         IN  IF ~v.ok
                 THEN Resultado(evs, regs, "modificar_evento", FALSE,
                                JoinVacio(v.errores))
                 ELSE Resultado([evs EXCEPT ![PosDe(evs, id)] = evento_temp], regs,
                                "modificar_evento", TRUE, FALSE)

modificar_evento(evs, regs, id, nueva_fecha_inicio, nueva_fecha_fin, nuevos_recursos) ==
    IF id \notin Ids(evs)
        THEN Resultado(evs, regs, "modificar_evento", FALSE, FALSE)
    ELSE LET evento_original == evs[PosDe(evs, id)]
             evento_temp == EventoTemp(evento_original, nueva_fecha_inicio,
                                       nueva_fecha_fin, nuevos_recursos)
             eventos_sin_original == SelectSeq(evs, LAMBDA e : e.id # id)
             v == validar_evento_completo(evento_temp, eventos_sin_original)
         IN  IF ~v.ok
                 THEN Resultado(evs, regs, "modificar_evento", FALSE,
                                JoinVacio(v.errores))
                 ELSE Resultado([evs EXCEPT ![PosDe(evs, id)] = evento_temp], regs,
                                "modificar_evento", TRUE, FALSE)

----------------------------------------------------------------------------
(* The engine as a state machine: create, modify and delete requests       *)

\* the calendar days a request names: the first three days of the planning
\* window and its last two, so that two requests are 0, 1 or 2 days apart,
\* or about a week
MaxDia == 7
Dias == {0, 1, 2, MaxDia - 1, MaxDia}

\* the kickoff hour of the requests (one of horarios_partido)
HoraInicio == 15

DURACION_ESTANDAR_HORAS == 2

Instantes == {d * 24 + HoraInicio : d \in Dias}
Finales == {t + DURACION_ESTANDAR_HORAS : t \in Instantes}

\* the ids of the events the registry holds at once
EventoIds == {1, 2}

NombrePartido == "Manchester City vs Visitante"

EquipoA == <<"P1", "L1", "L2", "F1">>
EquipoB == <<"P2", "L3", "L4", "F2">>
\* shares its Principal with EquipoA and the rest with EquipoB
EquipoC == <<"P1", "L3", "L4", "F2">>
\* a Line referee short
EquipoCorto == <<"P1", "L1", "F1">>

Listas == {EquipoA, EquipoB, EquipoC, EquipoCorto}

\* str(uuid.uuid4()) of a new Evento: an id no stored event has
IdNuevo(evs) == Min(EventoIds \ Ids(evs))

\* the Partido a create request builds: fecha_fin = fecha_inicio + duracion
Candidatos(evs) ==
    {Evento(IdNuevo(evs), NombrePartido, inicio,
            inicio + DURACION_ESTANDAR_HORAS, lista) :
        inicio \in Instantes, lista \in Listas}

\* (nueva_fecha_inicio, nueva_fecha_fin, nuevos_recursos) of a modify request:
\* nothing new, a new start alone, a new end alone, a new start with its
\* standard end, a new list alone, or all three
ArgsModificar ==
    {<<None, None, None>>}
    \cup {<<Some(t), None, None>> : t \in Instantes}
    \cup {<<None, Some(t), None>> : t \in Finales}
    \cup {<<Some(t), Some(t + DURACION_ESTANDAR_HORAS), None>> : t \in Instantes}
    \cup {<<None, None, Some(l)>> : l \in Listas}
    \cup {<<Some(t), Some(t + DURACION_ESTANDAR_HORAS), Some(l)>> :
             t \in Instantes, l \in Listas}

Aplicar(r) ==
    /\ eventos' = r.eventos
    /\ recursos' = r.recursos
    /\ UNCHANGED <<ahora, caso, salida>>

PlanificarEvento ==
    /\ EventoIds \ Ids(eventos) # {}
    /\ \E c \in Candidatos(eventos) :
          Aplicar(planificar_evento(eventos, recursos, c))

ModificarEvento ==
    \E id \in EventoIds :
        \E a \in IF id \in Ids(eventos) THEN ArgsModificar
                                       ELSE {<<None, None, None>>} :
            Aplicar(modificar_evento(eventos, recursos, id, a[1], a[2], a[3]))

EliminarEvento ==
    \E id \in EventoIds : Aplicar(eliminar_evento(eventos, recursos, id))

Init ==
    /\ eventos = <<>>
    /\ recursos = {}
    /\ ahora = 0
    /\ caso = <<>>
    /\ salida = <<>>

Next == PlanificarEvento \/ ModificarEvento \/ EliminarEvento

Spec == Init /\ [][Next]_vars

----------------------------------------------------------------------------
(* The engine with its resource registry and the clock: resources are      *)
(* registered and removed between the requests, and time passes            *)

\* the resources the registry is asked to add and remove
RecursosGestionados == {"P1", "P2", "X1"}

\* the days, kickoffs and lists of the requests
DiasR == {0, 2, MaxDia}
InstantesR == {d * 24 + HoraInicio : d \in DiasR}
ListasR == {EquipoA, EquipoB}

\* what the clock shows when a call is made: a kickoff, or the hour after
Relojes == InstantesR \cup {t + 1 : t \in InstantesR}

CandidatosR(evs) ==
    {Evento(IdNuevo(evs), NombrePartido, inicio,
            inicio + DURACION_ESTANDAR_HORAS, lista) :
        inicio \in InstantesR, lista \in ListasR}

\* nothing new, a new start alone, or a new list alone
ArgsModificarR ==
    {<<None, None, None>>}
    \cup {<<Some(t), None, None>> : t \in InstantesR}
    \cup {<<None, None, Some(l)>> : l \in ListasR}

AgregarRecurso ==
    \E rid \in RecursosGestionados :
        Aplicar(agregar_recurso(eventos, recursos, rid))

EliminarRecurso ==
    \E rid \in RecursosGestionados :
        Aplicar(eliminar_recurso(eventos, recursos, ahora, rid))

AvanzarReloj ==
    /\ \E t \in Relojes : t > ahora /\ ahora' = t
    /\ UNCHANGED <<eventos, recursos, caso, salida>>

PlanificarEventoR ==
    /\ EventoIds \ Ids(eventos) # {}
    /\ \E c \in CandidatosR(eventos) :
          Aplicar(planificar_evento(eventos, recursos, c))

ModificarEventoR ==
    \E id \in EventoIds : \E a \in ArgsModificarR :
        Aplicar(modificar_evento(eventos, recursos, id, a[1], a[2], a[3]))

NextRecursos ==
    \/ AgregarRecurso
    \/ EliminarRecurso
    \/ AvanzarReloj
    \/ PlanificarEventoR
    \/ ModificarEventoR
    \/ EliminarEvento

SpecRecursos == Init /\ [][NextRecursos]_vars

----------------------------------------------------------------------------
(* Properties of the event registry under Spec *)

\* the referees two events have in common
ArbitrosComunes(e1, e2) ==
    {r \in Arbitros : contiene_recurso(e1, r) /\ contiene_recurso(e2, r)}

\* C1: any two distinct stored events that share a referee id start on
\* calendar dates whose absolute difference is at least 7 days
C1_DescansoEntreEventos ==
    \A i, j \in 1..Len(eventos) :
        (i # j /\ ArbitrosComunes(eventos[i], eventos[j]) # {})
            => Abs(Fecha(eventos[i].inicio) - Fecha(eventos[j].inicio)) >= 7

\* two stored events share a referee exactly 7 days apart
C1_Testigo ==
    \E i, j \in 1..Len(eventos) :
        /\ i # j
        /\ ArbitrosComunes(eventos[i], eventos[j]) # {}
        /\ Abs(Fecha(eventos[i].inicio) - Fecha(eventos[j].inicio)) = 7

\* the half-open intervals [inicio, fin) of two events have a point in common
IntervalosSolapados(e1, e2) ==
    /\ e1.inicio < e1.fin
    /\ e2.inicio < e2.fin
    /\ e1.inicio < e2.fin
    /\ e2.inicio < e1.fin

\* C2: any two distinct stored events have non-overlapping [start, end)
\* intervals, and from the end date of the one that starts earlier to the
\* start date of the other there are at least 2 calendar days
C2_EstadioSeparado ==
    \A i, j \in 1..Len(eventos) :
        (i # j /\ eventos[i].inicio <= eventos[j].inicio)
            => /\ ~IntervalosSolapados(eventos[i], eventos[j])
               /\ Fecha(eventos[j].inicio) - Fecha(eventos[i].fin) >= 2

\* C5: every stored event ends after it starts
C5_FinDespuesDeInicio ==
    \A i \in 1..Len(eventos) : eventos[i].fin > eventos[i].inicio

\* C3: planificar_evento is all-or-nothing: a candidate that fails the
\* validation against the stored events leaves both registries as they
\* were; one that passes leaves the event registry as the previous one plus
\* the candidate under its own id, every other event untouched
C3_PlanificarTodoONada ==
    (EventoIds \ Ids(eventos) # {}) =>
        \A c \in Candidatos(eventos) :
            LET r == planificar_evento(eventos, recursos, c)
            IN  /\ r.recursos = recursos
                /\ r.ret.ok = validar_evento_completo(c, eventos).ok
                /\ IF r.ret.ok
                       THEN /\ Len(r.eventos) = Len(eventos) + 1
                            /\ SubSeq(r.eventos, 1, Len(eventos)) = eventos
                            /\ r.eventos[Len(r.eventos)] = c
                            /\ c.id \notin Ids(eventos)
                       ELSE r.eventos = eventos

\* one event is stored, and of the candidates some are refused and some stored
C3_Testigo ==
    /\ Len(eventos) = 1
    /\ \E c \in Candidatos(eventos) :
          ~planificar_evento(eventos, recursos, c).ret.ok
    /\ \E c \in Candidatos(eventos) :
          planificar_evento(eventos, recursos, c).eventos = Append(eventos, c)

\* the value an optional argument stands for
Propuesto(opcional, original) ==
    IF opcional = None THEN original ELSE opcional[1]

\* C4: modificar_evento validates the proposed start, end and resources (what
\* is not supplied is the original's) against every stored event but the one
\* modified; it changes that event, and only it, when the validation passes,
\* and changes no event and no resource when it fails or the id is unknown
C4_ModificarValidaContraLosDemas ==
    \A id \in EventoIds : \A a \in ArgsModificar :
        LET r == modificar_evento(eventos, recursos, id, a[1], a[2], a[3])
        IN  /\ r.recursos = recursos
            /\ IF id \notin Ids(eventos)
                   THEN r.eventos = eventos /\ ~r.ret.ok
               ELSE LET k == PosDe(eventos, id)
                        propuesto ==
                            Evento(id, eventos[k].nombre,
                                   Propuesto(a[1], eventos[k].inicio),
                                   Propuesto(a[2], eventos[k].fin),
                                   Propuesto(a[3], eventos[k].recursos))
                        demas == SelectSeq(eventos, LAMBDA e : e.id # id)
                    IN  IF validar_evento_completo(propuesto, demas).ok
                            THEN /\ r.ret.ok
                                 /\ r.eventos = [eventos EXCEPT ![k] = propuesto]
                            ELSE /\ ~r.ret.ok
                                 /\ r.eventos = eventos

\* two events are stored; one request to move the first is refused because of
\* the second, and another that changes its start is applied
C4_Testigo ==
    /\ Len(eventos) = 2
    /\ \E a \in ArgsModificar :
          ~modificar_evento(eventos, recursos, eventos[1].id, a[1], a[2], a[3]).ret.ok
    /\ \E a \in ArgsModificar :
          LET r == modificar_evento(eventos, recursos, eventos[1].id, a[1], a[2], a[3])
          IN  r.ret.ok /\ r.eventos[1].inicio # eventos[1].inicio

\* a candidate that reuses the referees of the stored event id, once that
\* event is gone
Recreado(id, inicio, fin) ==
    Evento(id, NombrePartido, inicio, fin, eventos[PosDe(eventos, id)].recursos)

\* the start date is at least 7 calendar days from the start date of every event
LejosDeTodos(inicio, evs) ==
    \A i \in 1..Len(evs) : Abs(Fecha(inicio) - Fecha(evs[i].inicio)) >= 7

\* eliminar_evento removes the stored event id, whatever else is stored; then
\* planificar_evento accepts the candidate c
EliminadoYAceptado(id, c) ==
    LET r == eliminar_evento(eventos, recursos, id)
        p == planificar_evento(r.eventos, r.recursos, c)
    IN  /\ r.ret.ok
        /\ r.eventos = SelectSeq(eventos, LAMBDA e : e.id # id)
        /\ r.recursos = recursos
        /\ p.ret.ok
        /\ p.eventos = Append(r.eventos, c)

\* C8 as stated, for registries and candidates whose events all end after
\* they start: once eliminar_evento has removed a stored event, any new
\* candidate that reuses its referees and starts at least 7 calendar days
\* from every remaining stored event is accepted by planificar_evento
C8_RecrearSiempreAceptado ==
    C5_FinDespuesDeInicio =>
        \A id \in Ids(eventos) : \A inicio \in Instantes : \A fin \in Finales :
            (fin > inicio /\ LejosDeTodos(inicio, DictDel(eventos, id)))
                => EliminadoYAceptado(id, Recreado(id, inicio, fin))

\* C8, amended: eliminar_evento removes a stored event unconditionally and
\* frees its referees: afterwards a new candidate that reuses them, starts at
\* least 7 calendar days from every remaining stored event and whose interval
\* passes the stadium check against every remaining stored event is accepted
C8_RecrearAceptadoSiEstadioLibre ==
    \A id \in Ids(eventos) : \A inicio \in Instantes : \A fin \in Finales :
        (/\ LejosDeTodos(inicio, DictDel(eventos, id))
         /\ validar_conflicto_estadio(inicio, fin, DictDel(eventos, id)).ok)
            => EliminadoYAceptado(id, Recreado(id, inicio, fin))

\* with two events stored, a candidate that reuses the referees of one of
\* them is refused while that event is stored and accepted once it is deleted
C8_Testigo ==
    /\ Len(eventos) = 2
    /\ \E id \in Ids(eventos) : \E inicio \in Instantes :
          LET c == Recreado(id, inicio, inicio + DURACION_ESTANDAR_HORAS)
          IN  /\ LejosDeTodos(inicio, DictDel(eventos, id))
              /\ ~validar_evento_completo(c, eventos).ok
              /\ EliminadoYAceptado(id, c)

----------------------------------------------------------------------------
(* Properties of the resource registry under SpecRecursos *)

\* C6: every resource id in the resource list of a stored event is a key of
\* the resource registry
C6_RecursosDeEventosRegistrados ==
    \A i \in 1..Len(eventos) : \A k \in 1..Len(eventos[i].recursos) :
        eventos[i].recursos[k] \in recursos

\* the stored events that hold the resource and start strictly after now
EventosFuturosDe(rid) ==
    {i \in 1..Len(eventos) :
        contiene_recurso(eventos[i], rid) /\ eventos[i].inicio > ahora}

\* C7: eliminar_recurso refuses, and leaves the resource registry as it was,
\* whenever the resource is in a stored event that starts strictly after the
\* current time; it removes a registered resource when there is no such event
C7_EliminarRecursoGuardado ==
    \A rid \in RecursosGestionados :
        LET r == eliminar_recurso(eventos, recursos, ahora, rid)
        IN  /\ r.eventos = eventos
            /\ EventosFuturosDe(rid) # {}
                   => (~r.ret.ok /\ r.recursos = recursos)
            /\ (EventosFuturosDe(rid) = {} /\ rid \in recursos)
                   => (r.ret.ok /\ r.recursos = recursos \ {rid})

\* two registered referees: one is in an event still to start and is kept,
\* the other is only in an event that starts at this very hour and is removed
C7_Testigo ==
    \E r1, r2 \in recursos :
        /\ EventosFuturosDe(r1) # {}
        /\ eliminar_recurso(eventos, recursos, ahora, r1).recursos = recursos
        /\ \E i \in 1..Len(eventos) :
              contiene_recurso(eventos[i], r2) /\ eventos[i].inicio = ahora
        /\ EventosFuturosDe(r2) = {}
        /\ r2 \notin eliminar_recurso(eventos, recursos, ahora, r2).recursos

----------------------------------------------------------------------------
(* The co-requisite constraint evaluated on its own: caso is the resource  *)
(* list handed to RestriccionCoRequisito.validar, salida holds its result  *)

\* the longest list drawn in every order and with repetitions
MaxLargo == 3

\* the elements of a list
Rango(s) == {s[i] : i \in 1..Len(s)}

\* a set of resources as a list
RECURSIVE ListaDe(_)
ListaDe(S) ==
    IF S = {} THEN <<>>
    ELSE LET x == CHOOSE y \in S : TRUE
         IN  <<x>> \o ListaDe(S \ {x})

\* every set of resources as a list, and every list of up to MaxLargo resources
ListasCoRequisito ==
    {ListaDe(S) : S \in SUBSET Recursos}
    \cup UNION {[1..n -> Recursos] : n \in 0..MaxLargo}

InitCoRequisito ==
    /\ eventos = <<>>
    /\ recursos = {}
    /\ ahora = 0
    /\ caso \in ListasCoRequisito
    /\ salida = <<>>

EvaluarCoRequisito ==
    /\ salida = <<>>
    /\ salida' = <<RestriccionCoRequisito_validar(caso, ahora, ahora, eventos)>>
    /\ UNCHANGED <<eventos, recursos, ahora, caso>>

NextCoRequisito == EvaluarCoRequisito

SpecCoRequisito == InitCoRequisito /\ [][NextCoRequisito]_vars

\* how many referees of a category a set of resources holds
Cuantos(S, tipo) == Cardinality({r \in S \cap Arbitros : Tipo(r) = tipo})

\* the count the rule asks of each category: 1 Principal, 2 Line, 1 Fourth
Exigidos(tipo) == IF tipo = LINEA THEN 2 ELSE 1

\* the categories whose count is not the one asked
Desviadas(S) ==
    {tipo \in {PRINCIPAL, LINEA, CUARTO} : Cuantos(S, tipo) # Exigidos(tipo)}

\* C9: for every set of resources the co-requisite check passes iff the set
\* holds exactly 1 Principal, 2 Line and 1 Fourth referee; when it fails it
\* gives exactly one reason for each category whose count is off, too few or
\* too many, for all such categories
C9_CoRequisitoExacto ==
    (salida # <<>> /\ Cardinality(Rango(caso)) = Len(caso)) =>
        LET r == salida[1]
            S == Rango(caso)
        IN  /\ r.ok <=> (Desviadas(S) = {})
            /\ r.ok => (r.mensaje = <<>>)
            /\ ~r.ok =>
                  /\ Len(r.mensaje) = Cardinality(Desviadas(S))
                  /\ \A tipo \in Desviadas(S) :
                        \E k \in 1..Len(r.mensaje) :
                            /\ r.mensaje[k][3] = tipo
                            /\ r.mensaje[k][4] = Cuantos(S, tipo)
                            /\ r.mensaje[k][1] =
                                   IF Cuantos(S, tipo) < Exigidos(tipo)
                                       THEN "se_requiere"
                                       ELSE "solo_se_permite"

\* a set that is off in all three categories, some by excess and some by
\* defect, has been evaluated and got its three reasons
C9_Testigo ==
    /\ salida # <<>>
    /\ Cardinality(Rango(caso)) = Len(caso)
    /\ Cardinality(Desviadas(Rango(caso))) = 3
    /\ Len(salida[1].mensaje) = 3
    /\ \E k \in 1..3 : salida[1].mensaje[k][1] = "se_requiere"
    /\ \E k \in 1..3 : salida[1].mensaje[k][1] = "solo_se_permite"

----------------------------------------------------------------------------
(* The referee rest rule evaluated on its own: caso is a candidate and one *)
(* existing event; salida holds the result of RestriccionExclusionMutua    *)
(* or of Validador.validar_disponibilidad_arbitro for each referee of the  *)
(* candidate                                                               *)

\* the last calendar day of the two starts
MaxDiaDescanso == 8

\* the first hour of a day, the kickoff hour and the last hour of a day
HorasDescanso == {0, HoraInicio, 23}

\* a match of standard length, and an event that runs into the next day
Duraciones == {DURACION_ESTANDAR_HORAS, 30}

InstantesDescanso ==
    {d * 24 + h : d \in 0..MaxDiaDescanso, h \in HorasDescanso}

\* the candidate has the referees of EquipoA; the existing event has the
\* same four, only its Principal, or none of them
CasosDescanso ==
    {[candidato |-> Evento(2, NombrePartido, ci, ci + dc, EquipoA),
      existente |-> Evento(1, NombrePartido, ei, ei + de, le)] :
        ci \in InstantesDescanso, ei \in InstantesDescanso,
        dc \in Duraciones, de \in Duraciones,
        le \in {EquipoA, EquipoC, EquipoB}}

InitDescanso ==
    /\ eventos = <<>>
    /\ recursos = {}
    /\ ahora = 0
    /\ caso \in CasosDescanso
    /\ salida = <<>>

\* RestriccionExclusionMutua.validar of the candidate against the event
ExclusionMutuaDe(c, e) ==
    RestriccionExclusionMutua_validar(c.recursos, c.inicio, c.fin, <<e>>)

\* validar_disponibilidad_arbitro of each referee of the candidate
DisponibilidadDe(c, e) ==
    [i \in 1..Len(c.recursos) |->
        validar_disponibilidad_arbitro(c.recursos[i], c.inicio, c.fin, <<e>>)]

EvaluarExclusionMutua ==
    /\ salida = <<>>
    /\ salida' = <<"restriccion", ExclusionMutuaDe(caso.candidato, caso.existente)>>
    /\ UNCHANGED <<eventos, recursos, ahora, caso>>

EvaluarDisponibilidad ==
    /\ salida = <<>>
    /\ salida' = <<"validador", DisponibilidadDe(caso.candidato, caso.existente)>>
    /\ UNCHANGED <<eventos, recursos, ahora, caso>>

NextDescanso == EvaluarExclusionMutua \/ EvaluarDisponibilidad

SpecDescanso == InitDescanso /\ [][NextDescanso]_vars

\* the calendar days between the starts of two events
DiasEntre(e1, e2) == Abs((e1.inicio \div 24) - (e2.inicio \div 24))

\* C10: for a candidate and an existing event that share a referee, the rest
\* validation fails iff the calendar days between the two starts are fewer
\* than 7 (exactly 7 passes), whatever the hours of the starts and the ends
\* of the events; it fails for the shared referees only, and the verdict is
\* the same with the roles of the two events exchanged
C10_DescansoPorFechas ==
    (salida # <<>> /\ ArbitrosComunes(caso.candidato, caso.existente) # {}) =>
        LET c == caso.candidato
            e == caso.existente
            cerca == DiasEntre(c, e) < 7
        IN  IF salida[1] = "restriccion"
                THEN /\ salida[2].ok <=> ~cerca
                     /\ ExclusionMutuaDe(e, c).ok <=> salida[2].ok
                ELSE /\ \A i \in 1..Len(c.recursos) :
                            salida[2][i].ok <=>
                                ~(cerca /\ contiene_recurso(e, c.recursos[i]))
                     /\ (\A i \in 1..Len(e.recursos) : DisponibilidadDe(e, c)[i].ok)
                            <=> (\A i \in 1..Len(c.recursos) : salida[2][i].ok)

\* the two starts are on dates exactly 7 days apart but fewer than 7 times 24
\* hours apart, the events share a referee, and the constraint has passed
C10_Testigo ==
    /\ salida # <<>>
    /\ salida[1] = "restriccion"
    /\ ArbitrosComunes(caso.candidato, caso.existente) # {}
    /\ DiasEntre(caso.candidato, caso.existente) = 7
    /\ Abs(caso.candidato.inicio - caso.existente.inicio) < 7 * 24
    /\ salida[2].ok

----------------------------------------------------------------------------
(* The facility check evaluated on its own: caso is a candidate interval   *)
(* and the list of existing events, salida holds the result of             *)
(* Validador.validar_conflicto_estadio                                     *)

\* the last calendar day an event of a case starts on
MaxDiaEstadio == 4

\* a standard match, an event that runs into the next day, and one of 3 days
DuracionesEstadio == {DURACION_ESTANDAR_HORAS, 30, 72}

\* events that end after they start, at the first hour of a day, the kickoff
\* hour, the hour a standard match ends, or the last hour of a day
IntervalosEstadio ==
    {<<d * 24 + h, d * 24 + h + dur>> :
        d \in 0..MaxDiaEstadio,
        h \in {0, HoraInicio, HoraInicio + DURACION_ESTANDAR_HORAS, 23},
        dur \in DuracionesEstadio}

EventoEstadio(id, iv) == Evento(id, NombrePartido, iv[1], iv[2], EquipoA)

\* no, one or two existing events
ExistentesEstadio ==
    {<<>>}
    \cup {<<EventoEstadio(1, a)>> : a \in IntervalosEstadio}
    \cup {<<EventoEstadio(1, a), EventoEstadio(2, b)>> :
             a \in IntervalosEstadio, b \in IntervalosEstadio}

InitEstadio ==
    /\ eventos = <<>>
    /\ recursos = {}
    /\ ahora = 0
    /\ caso \in {[inicio |-> iv[1], fin |-> iv[2], existentes |-> ex] :
                    iv \in IntervalosEstadio, ex \in ExistentesEstadio}
    /\ salida = <<>>

EvaluarEstadio ==
    /\ salida = <<>>
    /\ salida' = <<validar_conflicto_estadio(caso.inicio, caso.fin, caso.existentes)>>
    /\ UNCHANGED <<eventos, recursos, ahora, caso>>

NextEstadio == EvaluarEstadio

SpecEstadio == InitEstadio /\ [][NextEstadio]_vars

\* some instant lies in both half-open intervals [a1, a2) and [b1, b2)
HayInstanteComun(a1, a2, b1, b2) ==
    \E t \in a1..(a2 - 1) : b1 <= t /\ t < b2

\* the calendar days from the end date of one interval to the start date of
\* another are at least 0 and fewer than 2
HuecoCorto(fin_anterior, inicio_posterior) ==
    LET hueco == (inicio_posterior \div 24) - (fin_anterior \div 24)
    IN  0 <= hueco /\ hueco < 2

\* C11: the facility check rejects a candidate iff for some existing event the
\* two [start, end) intervals overlap (one ending exactly when the other
\* starts is no overlap) or the calendar-day gap between them, candidate
\* start date minus existing end date or existing start date minus candidate
\* end date, lies in [0, 2); a gap of exactly 2 days is accepted
C11_EstadioRechazaSiSolapaOHuecoCorto ==
    (salida # <<>>) =>
        (~salida[1].ok <=>
            \E j \in 1..Len(caso.existentes) :
                LET ev == caso.existentes[j]
                IN  \/ HayInstanteComun(caso.inicio, caso.fin, ev.inicio, ev.fin)
                    \/ HuecoCorto(ev.fin, caso.inicio)
                    \/ HuecoCorto(caso.fin, ev.inicio))

\* a candidate that spans an existing event on other dates has been rejected,
\* and so the rejection is for the overlap alone
C11_Testigo ==
    /\ salida # <<>>
    /\ ~salida[1].ok
    /\ Len(caso.existentes) = 1
    /\ caso.inicio < caso.existentes[1].inicio
    /\ caso.existentes[1].fin < caso.fin
    /\ ~HuecoCorto(caso.existentes[1].fin, caso.inicio)
    /\ ~HuecoCorto(caso.fin, caso.existentes[1].inicio)

----------------------------------------------------------------------------
(* Availability queries and the horizon search (services/planificador.py). *)
(* The lists of referees the queries return are kept as sets of ids.       *)

obtener_recursos_por_tipo(regs, tipo) ==
    {r \in regs : EsArbitro(r) /\ Tipo(r) = tipo}

\* a variant that calls a referee busy only while an event of theirs is on
verificar_disponibilidad_recurso_solape(evs, rid, fecha_inicio, fecha_fin) ==
    IF EsArbitro(rid)
        THEN IF \E j \in 1..Len(evs) :
                    /\ contiene_recurso(evs[j], rid)
                    /\ se_superpone_con(evs[j], fecha_inicio, fecha_fin)
                 THEN Invalido(<<"no_esta_disponible", Nombre(rid)>>)
                 ELSE Valido
        ELSE Valido

verificar_disponibilidad_recurso(evs, rid, fecha_inicio, fecha_fin) ==
    IF EsArbitro(rid)
        THEN validar_disponibilidad_arbitro(rid, fecha_inicio, fecha_fin, evs)
        ELSE Valido

\* with excluir_ids left out
obtener_arbitros_disponibles(evs, regs, tipo, fecha_inicio, fecha_fin) ==
    {r \in obtener_recursos_por_tipo(regs, tipo) :
        verificar_disponibilidad_recurso(evs, r, fecha_inicio, fecha_fin).ok}

\* a variant that only asks that no stored event is on during the interval
_verificar_disponibilidad_estadio_solape(evs, fecha_inicio, fecha_fin) ==
    \A j \in 1..Len(evs) : ~se_superpone_con(evs[j], fecha_inicio, fecha_fin)

_verificar_disponibilidad_estadio(evs, fecha_inicio, fecha_fin) ==
    validar_conflicto_estadio(fecha_inicio, fecha_fin, evs).ok

_obtener_arbitros_disponibles_todos_tipos(evs, regs, fecha_inicio, fecha_fin) ==
    [tipo \in {PRINCIPAL, LINEA, CUARTO} |->
        obtener_arbitros_disponibles(evs, regs, tipo, fecha_inicio, fecha_fin)]

_hay_equipo_arbitral_completo(arbitros_disponibles) ==
    /\ Cardinality(arbitros_disponibles[PRINCIPAL]) >= 1
    /\ Cardinality(arbitros_disponibles[LINEA]) >= 2
    /\ Cardinality(arbitros_disponibles[CUARTO]) >= 1

\* a variant that tries the latest kickoff first
horarios_partido_tarde_primero == <<20, 17, 15, 12>>

horarios_partido == <<12, 15, 17, 20>>

\* The loops of buscar_proximo_horario, one candidate at a time.  A search
\* in progress is [desde, duracion, max_dias, dia, hora]: the arguments, the
\* days fecha_actual is past fecha_desde, and the index into horarios_partido.
fecha_actual(b) == b.desde + 24 * b.dia
fecha_limite(b) == b.desde + 24 * b.max_dias

\* fecha_actual.replace(hour=hora, minute=0, second=0, microsecond=0)
fecha_candidata(b) == Fecha(fecha_actual(b)) * 24 + horarios_partido[b.hora]

\* a variant of the while condition that takes one day too many
dentro_del_horizonte_inclusive(b) == fecha_actual(b) <= fecha_limite(b)

\* while fecha_actual < fecha_limite
dentro_del_horizonte(b) == fecha_actual(b) < fecha_limite(b)

\* if fecha_inicio < datetime.now(): continue
ya_paso(fecha_inicio, now) == fecha_inicio < now

\* the next hour of the day, or the first hour of the next day
siguiente(b) ==
    IF b.hora < Len(horarios_partido)
        THEN [b EXCEPT !.hora = b.hora + 1]
        ELSE [b EXCEPT !.dia = b.dia + 1, !.hora = 1]

\* what one step leaves: the registries, the search position, and in ret the
\* value returned, if the step returns: None, or the slot and the referees
Sigue(evs, regs, b) ==
    [eventos |-> evs, recursos |-> regs, busqueda |-> siguiente(b), ret |-> <<>>]
Retorna(evs, regs, b, valor) ==
    [eventos |-> evs, recursos |-> regs, busqueda |-> b, ret |-> <<valor>>]

\* a variant that books the slot it is about to return
paso_busqueda_reservando(evs, regs, now, b) ==
    IF ~dentro_del_horizonte(b)
        THEN Retorna(evs, regs, b, None)
    ELSE LET fecha_inicio == fecha_candidata(b)
             fecha_fin == fecha_inicio + b.duracion
             arbitros_disponibles ==
                 _obtener_arbitros_disponibles_todos_tipos(
                     evs, regs, fecha_inicio, fecha_fin)
         IN  IF ya_paso(fecha_inicio, now)
                 THEN Sigue(evs, regs, b)
             ELSE IF ~_verificar_disponibilidad_estadio(evs, fecha_inicio, fecha_fin)
                 THEN Sigue(evs, regs, b)
             ELSE IF _hay_equipo_arbitral_completo(arbitros_disponibles)
                 THEN Retorna(
                          Append(evs, Evento(0, NombrePartido, fecha_inicio,
                                             fecha_fin, <<>>)),
                          regs, b,
                          Some([fecha |-> fecha_inicio,
                                arbitros |-> arbitros_disponibles]))
             ELSE Sigue(evs, regs, b)

paso_busqueda(evs, regs, now, b) ==
    IF ~dentro_del_horizonte(b)
        THEN Retorna(evs, regs, b, None)
    ELSE LET fecha_inicio == fecha_candidata(b)
             fecha_fin == fecha_inicio + b.duracion
             arbitros_disponibles ==
                 _obtener_arbitros_disponibles_todos_tipos(
                     evs, regs, fecha_inicio, fecha_fin)
         IN  IF ya_paso(fecha_inicio, now)
                 THEN Sigue(evs, regs, b)
             ELSE IF ~_verificar_disponibilidad_estadio(evs, fecha_inicio, fecha_fin)
                 THEN Sigue(evs, regs, b)
             ELSE IF _hay_equipo_arbitral_completo(arbitros_disponibles)
                 THEN Retorna(evs, regs, b,
                              Some([fecha |-> fecha_inicio,
                                    arbitros |-> arbitros_disponibles]))
             ELSE Sigue(evs, regs, b)

----------------------------------------------------------------------------
(* The horizon search as a state machine: events are created and deleted,  *)
(* the clock advances, and a search, once called, runs to its return       *)
(* before anything else happens; it may then be called again with the same *)
(* arguments.  caso is the search in progress, with the registries as they *)
(* were when it was called; salida holds the values returned so far.       *)

\* the longest horizon a search is given, in days
MaxDiasBusqueda == 3

\* the registry after the start-up load: one full team, two, and one that
\* is a Line referee short next to a resource that is no referee
RegistrosBusqueda ==
    {Rango(EquipoA), Rango(EquipoA) \cup Rango(EquipoB),
     Rango(EquipoCorto) \cup Otros}

\* the events of the create requests: on day 0 or day 2, a full team
CandidatosB(evs) ==
    {Evento(IdNuevo(evs), NombrePartido, d * 24 + HoraInicio,
            d * 24 + HoraInicio + DURACION_ESTANDAR_HORAS, lista) :
        d \in {0, 2}, lista \in {EquipoA, EquipoB}}

\* noon of day 2, which is a kickoff, and the hour after
RelojesB == {2 * 24 + 12, 2 * 24 + 13}

\* fecha_desde: the evening of day 0, or the morning of day 5
DesdeB == {18, 5 * 24 + 10}

\* duracion_horas: the default, or an event that runs into the next day
DuracionesB == {DURACION_ESTANDAR_HORAS, 30}

SinBusqueda == [fase |-> "libre"]

NuevaBusqueda(desde, duracion, max_dias) ==
    [fase |-> "buscando", desde |-> desde, duracion |-> duracion,
     max_dias |-> max_dias, dia |-> 0, hora |-> 1,
     eventos_antes |-> eventos, recursos_antes |-> recursos]

InitBusqueda ==
    /\ eventos = <<>>
    /\ recursos \in RegistrosBusqueda
    /\ ahora = 0
    /\ caso = SinBusqueda
    /\ salida = <<>>

PlanificarEventoB ==
    /\ caso = SinBusqueda
    /\ EventoIds \ Ids(eventos) # {}
    /\ \E c \in CandidatosB(eventos) :
          Aplicar(planificar_evento(eventos, recursos, c))

EliminarEventoB ==
    /\ caso = SinBusqueda
    /\ \E id \in Ids(eventos) : Aplicar(eliminar_evento(eventos, recursos, id))

AvanzarRelojB ==
    /\ caso = SinBusqueda
    /\ \E t \in RelojesB : t > ahora /\ ahora' = t
    /\ UNCHANGED <<eventos, recursos, caso, salida>>

LlamarBusqueda ==
    /\ caso = SinBusqueda
    /\ \E desde \in DesdeB, duracion \in DuracionesB, max_dias \in 0..MaxDiasBusqueda :
          caso' = NuevaBusqueda(desde, duracion, max_dias)
    /\ UNCHANGED <<eventos, recursos, ahora, salida>>

PasoBusqueda ==
    /\ caso.fase = "buscando"
    /\ LET r == paso_busqueda(eventos, recursos, ahora, caso)
       IN  /\ eventos' = r.eventos
           /\ recursos' = r.recursos
           /\ IF r.ret = <<>>
                  THEN caso' = r.busqueda /\ salida' = salida
                  ELSE /\ caso' = [r.busqueda EXCEPT !.fase = "terminada"]
                       /\ salida' = Append(salida, r.ret[1])
    /\ UNCHANGED ahora

\* the same call once more, right after the first has returned
RepetirBusqueda ==
    /\ caso.fase = "terminada"
    /\ Len(salida) = 1
    /\ caso' = [caso EXCEPT !.fase = "buscando", !.dia = 0, !.hora = 1]
    /\ UNCHANGED <<eventos, recursos, ahora, salida>>

\* the caller takes the values returned
RetornarBusqueda ==
    /\ caso.fase = "terminada"
    /\ caso' = SinBusqueda
    /\ salida' = <<>>
    /\ UNCHANGED <<eventos, recursos, ahora>>

NextBusqueda ==
    \/ PlanificarEventoB
    \/ EliminarEventoB
    \/ AvanzarRelojB
    \/ LlamarBusqueda
    \/ PasoBusqueda
    \/ RepetirBusqueda
    \/ RetornarBusqueda

SpecBusqueda == InitBusqueda /\ [][NextBusqueda]_vars

\* the loop runs on without a pause until it returns
SpecBusquedaJusta == SpecBusqueda /\ WF_vars(PasoBusqueda)

----------------------------------------------------------------------------
(* Properties of the horizon search under SpecBusqueda *)

\* the kickoff hours in the order they are to be tried
HorasEnOrden == <<12, 15, 17, 20>>

\* the candidates of the search in caso: day by day from the date of
\* fecha_desde, max_dias days, and within a day hour by hour
NumCandidatas == Len(HorasEnOrden) * caso.max_dias
CandidataN(n) ==
    ((caso.desde \div 24) + ((n - 1) \div Len(HorasEnOrden))) * 24
        + HorasEnOrden[((n - 1) % Len(HorasEnOrden)) + 1]

\* no stored event with the referee starts fewer than 7 calendar days from t
LibreDe(r, t) ==
    \A j \in 1..Len(eventos) :
        contiene_recurso(eventos[j], r)
            => Abs((t \div 24) - (eventos[j].inicio \div 24)) >= 7

LibresDeTipo(tipo, t) ==
    {r \in recursos \cap Arbitros : Tipo(r) = tipo /\ LibreDe(r, t)}

\* the interval [t, f) shares no instant with a stored event and is 2
\* calendar days or more from each
EstadioLibre(t, f) ==
    \A j \in 1..Len(eventos) :
        /\ ~HayInstanteComun(t, f, eventos[j].inicio, eventos[j].fin)
        /\ ~HuecoCorto(eventos[j].fin, t)
        /\ ~HuecoCorto(f, eventos[j].inicio)

\* the candidate is not skipped as past, the facility is free for its
\* duration, and 1 Principal, 2 Line and 1 Fourth referee are available
AceptableB(t) ==
    /\ ~(t < ahora)
    /\ EstadioLibre(t, t + caso.duracion)
    /\ Cardinality(LibresDeTipo(PRINCIPAL, t)) >= 1
    /\ Cardinality(LibresDeTipo(LINEA, t)) >= 2
    /\ Cardinality(LibresDeTipo(CUARTO, t)) >= 1

\* C12: buscar_proximo_horario is first-fit: the slot it returns is a
\* candidate of the enumeration by day ascending from the start date and by
\* kickoff hour 12, 15, 17, 20 within a day, it is not skipped as past,
\* passes the facility check for [start, start + duration) and has at least
\* 1 Principal, 2 Line and 1 Fourth referee available, and no candidate
\* earlier in that order does
C12_PrimerAjuste ==
    \A k \in 1..Len(salida) :
        (salida[k] # None) =>
            \E n \in 1..NumCandidatas :
                /\ CandidataN(n) = salida[k][1].fecha
                /\ AceptableB(CandidataN(n))
                /\ \A m \in 1..(n - 1) : ~AceptableB(CandidataN(m))

\* a search has returned a slot of a later day than fecha_desde with a
\* stored event in the registry
C12_Testigo ==
    /\ caso.fase = "terminada"
    /\ eventos # <<>>
    /\ salida[1] # None
    /\ (salida[1][1].fecha \div 24) > (caso.desde \div 24)

\* C13: buscar_proximo_horario always terminates, and it returns None
\* exactly when no candidate of day offsets 0 .. max_dias_busqueda - 1 and
\* kickoff hours 12, 15, 17, 20 is acceptable
C13_TerminaYNoEncuentraSoloSiNoHay ==
    /\ [](\A k \in 1..Len(salida) :
             (salida[k] = None)
                 <=> (\A n \in 1..NumCandidatas : ~AceptableB(CandidataN(n))))
    /\ ((caso.fase = "buscando") ~> (caso.fase = "terminada"))

\* a search over the longest horizon has gone through every day of it and
\* returned None
C13_Testigo ==
    /\ caso.fase = "terminada"
    /\ caso.max_dias = MaxDiasBusqueda
    /\ caso.dia = caso.max_dias
    /\ salida[Len(salida)] = None

\* C14: with the same registries and the same current time, two consecutive
\* calls of buscar_proximo_horario with the same start date return the same
\* slot and the same available referees of each category, and neither call
\* changes the event registry or the resource registry
C14_BusquedaIdempotente ==
    (caso.fase # "libre") =>
        /\ eventos = caso.eventos_antes
        /\ recursos = caso.recursos_antes
        /\ (Len(salida) = 2) => (salida[1] = salida[2])

\* the second call has returned, and the slot is the one of the first
C14_Testigo ==
    /\ caso.fase = "terminada"
    /\ Len(salida) = 2
    /\ salida[1] # None
    /\ salida[2] = salida[1]

\* C19: every timestamp buscar_proximo_horario returns is strictly later
\* than the current time; a candidate equal to the current time is skipped
C19_SoloFuturoEstricto ==
    \A k \in 1..Len(salida) :
        (salida[k] # None) => (salida[k][1].fecha > ahora)

----------------------------------------------------------------------------
(* Properties of what the engine operations return, under SpecRecursos *)

\* what each engine operation would return if called in the current state
RetornosPosibles ==
    {agregar_recurso(eventos, recursos, rid).ret : rid \in RecursosGestionados}
    \cup {eliminar_recurso(eventos, recursos, ahora, rid).ret :
             rid \in RecursosGestionados}
    \cup {eliminar_evento(eventos, recursos, id).ret : id \in EventoIds}
    \cup {modificar_evento(eventos, recursos, id, a[1], a[2], a[3]).ret :
             id \in EventoIds, a \in ArgsModificarR}
    \cup (IF EventoIds \ Ids(eventos) # {}
              THEN {planificar_evento(eventos, recursos, c).ret :
                       c \in CandidatosR(eventos)}
              ELSE {})

\* C16: every engine operation that rejects (planificar_evento,
\* modificar_evento, eliminar_evento, eliminar_recurso, agregar_recurso)
\* returns a false outcome together with a non-empty message
C16_RechazoConMensaje ==
    \A r \in RetornosPosibles : ~r.ok => ~r.vacio

\* the starts of the windows asked about: midnight, the kickoff and the last
\* hour of every day up to a rest period after the last day of a request
VentanasDisponibilidad ==
    {d * 24 + h : d \in 0..(MaxDia + DIAS_DESCANSO_ARBITROS),
                  h \in {0, HoraInicio, 23}}

----------------------------------------------------------------------------
(* Properties of the facility check on several events, under SpecEstadio *)

\* the violations a result of the facility check reports: the (bool, str)
\* pair it returns carries one message
Reportadas(res) == IF res.ok THEN {} ELSE {res.mensaje}

\* C20: when the candidate directly overlaps one existing event, the
\* facility check stops checking against that event only: the remaining
\* existing events are still checked and their violations are reported too
C20_SigueConLosDemasEventos ==
    (salida # <<>>) =>
        \A i, j \in 1..Len(caso.existentes) :
            (/\ i # j
             /\ HayInstanteComun(caso.inicio, caso.fin,
                                 caso.existentes[i].inicio,
                                 caso.existentes[i].fin)
             /\ RechazaEstadio(caso.inicio, caso.fin, caso.existentes[j]))
                => /\ Reportadas(validar_conflicto_estadio(
                          caso.inicio, caso.fin, <<caso.existentes[j]>>))
                          \subseteq Reportadas(salida[1])
                   /\ Reportadas(RestriccionDescansoEstadio_validar(
                          <<>>, caso.inicio, caso.fin, <<caso.existentes[j]>>))
                          \subseteq Reportadas(RestriccionDescansoEstadio_validar(
                                 <<>>, caso.inicio, caso.fin, caso.existentes))

----------------------------------------------------------------------------
(* Two requests in a row, under Spec *)

\* a create request (kickoff and referees) or a modify request (id and the
\* optional arguments: a new time or a new list)
Solicitudes ==
    [op : {"planificar"}, inicio : Instantes, lista : Listas]
    \cup [op : {"modificar"}, id : EventoIds,
          a : {a \in ArgsModificar : a[1] = None \/ a[3] = None}]

\* str(uuid.uuid4()): an id no stored event has
IdFresco(evs) == Min((1..(Len(evs) + 1)) \ Ids(evs))

\* whether the request puts a candidate to validation
HayCandidato(evs, s) == s.op = "planificar" \/ s.id \in Ids(evs)

\* the candidate the request puts to validation
CandidatoDe(evs, s) ==
    IF s.op = "planificar"
        THEN Evento(IdFresco(evs), NombrePartido, s.inicio,
                    s.inicio + DURACION_ESTANDAR_HORAS, s.lista)
        ELSE LET original == evs[PosDe(evs, s.id)]
             IN  Evento(s.id, original.nombre,
                        Propuesto(s.a[1], original.inicio),
                        Propuesto(s.a[2], original.fin),
                        Propuesto(s.a[3], original.recursos))

\* the whole handler of the request, validation and insertion or update
Ejecutar(evs, regs, s) ==
    IF s.op = "planificar"
        THEN planificar_evento(evs, regs, CandidatoDe(evs, s))
        ELSE modificar_evento(evs, regs, s.id, s.a[1], s.a[2], s.a[3])

\* a referee of both within 7 calendar days of start
ConflictoDeArbitro(c1, c2) ==
    /\ ArbitrosComunes(c1, c2) # {}
    /\ Abs((c1.inicio \div 24) - (c2.inicio \div 24)) < 7

\* a gap under 2 calendar days on either side, or a common instant
ConflictoDeEstadio(c1, c2) ==
    \/ HuecoCorto(c1.fin, c2.inicio)
    \/ HuecoCorto(c2.fin, c1.inicio)
    \/ HayInstanteComun(c1.inicio, c1.fin, c2.inicio, c2.fin)

----------------------------------------------------------------------------
(* Saving and loading (services/persistencia.py).  The file is the value    *)
(* that json.dump writes and json.load reads back.                          *)

\* datetime.isoformat(): the date and the time of day as text
isoformat(t) == <<t \div 24, t % 24>>

\* datetime.fromisoformat()
fromisoformat(texto) == texto[1] * 24 + texto[2]

_recurso_a_dict(rid) ==
    IF EsArbitro(rid)
        THEN [id |-> rid, tipo_clase |-> "Arbitro", nombre |-> Nombre(rid),
              tipo_arbitro |-> Tipo(rid)]
        ELSE [id |-> rid, tipo_clase |-> "Recurso", nombre |-> Nombre(rid),
              tipo_arbitro |-> ""]

_evento_a_dict(evento) ==
    [id |-> evento.id, tipo |-> "Partido", nombre |-> evento.nombre,
     fecha_inicio |-> isoformat(evento.inicio),
     fecha_fin |-> isoformat(evento.fin),
     recursos_ids |-> evento.recursos,
     equipo_local |-> "Manchester City", equipo_visitante |-> "Visitante"]

_construir_datos_guardado(evs, regs) ==
    LET lista == ListaDe(regs)
    IN  [recursos |-> [i \in 1..Len(lista) |-> _recurso_a_dict(lista[i])],
         eventos |-> [i \in 1..Len(evs) |-> _evento_a_dict(evs[i])]]

\* the content of the file after guardar
guardar(evs, regs) == _construir_datos_guardado(evs, regs)

_validar_estructura_datos(datos) ==
    {"recursos", "eventos"} \subseteq DOMAIN datos

\* datos['nombre'] and datos['id'] raise no KeyError
RecursoCompleto(datos) == {"nombre", "id"} \subseteq DOMAIN datos

\* the keys a Partido record is read by, and both dates parse
EventoCompleto(datos) ==
    /\ {"fecha_inicio", "fecha_fin", "equipo_local", "equipo_visitante", "id"}
           \subseteq DOMAIN datos
    /\ Len(datos.fecha_inicio) = 2
    /\ Len(datos.fecha_fin) = 2

\* datos.get('recursos_ids', [])
RecursosIds(datos) ==
    IF "recursos_ids" \in DOMAIN datos THEN datos.recursos_ids ELSE <<>>

\* the id of the resource the record gives, or None after the warning
_dict_a_recurso(datos) ==
    IF RecursoCompleto(datos) THEN Some(datos.id) ELSE None

\* resource ids that are not in the map are left out; None after the warning
_dict_a_evento(datos, recursos_map) ==
    IF EventoCompleto(datos)
        THEN Some(Evento(datos.id, NombrePartido,
                         fromisoformat(datos.fecha_inicio),
                         fromisoformat(datos.fecha_fin),
                         SelectSeq(RecursosIds(datos),
                                   LAMBDA rid : rid \in recursos_map)))
        ELSE None

\* planificador.eventos[evento.id] = evento for each event of the list
RECURSIVE GuardarTodos(_, _)
GuardarTodos(evs, nuevos) ==
    IF nuevos = <<>> THEN evs
    ELSE GuardarTodos(DictSet(evs, Head(nuevos)), Tail(nuevos))

_reconstruir_planificador(datos) ==
    LET recursos_map ==
            {datos.recursos[i].id :
                i \in {k \in 1..Len(datos.recursos) :
                          _dict_a_recurso(datos.recursos[k]) # None}}
        cargados ==
            Aplanar([i \in 1..Len(datos.eventos) |->
                        _dict_a_evento(datos.eventos[i], recursos_map)])
    IN  [recursos |-> recursos_map,
         eventos |-> GuardarTodos(<<>>, cargados)]

\* the planner cargar returns, or None for a file without the two sections
cargar(datos) ==
    IF _validar_estructura_datos(datos)
        THEN Some(_reconstruir_planificador(datos))
        ELSE None

\* C15: for every state of the registries, guardar followed by cargar gives
\* a planner with the same set of resource ids, the same set of event ids
\* and, for each event, the same start, the same end and the same assigned
\* resource ids
C15_GuardarYCargar ==
    LET cargado == cargar(guardar(eventos, recursos))
    IN  /\ cargado # None
        /\ cargado[1].recursos = recursos
        /\ Ids(cargado[1].eventos) = Ids(eventos)
        /\ \A i \in 1..Len(eventos) :
              \E k \in 1..Len(cargado[1].eventos) :
                  /\ cargado[1].eventos[k].id = eventos[i].id
                  /\ cargado[1].eventos[k].inicio = eventos[i].inicio
                  /\ cargado[1].eventos[k].fin = eventos[i].fin
                  /\ Rango(cargado[1].eventos[k].recursos)
                         = Rango(eventos[i].recursos)

----------------------------------------------------------------------------
(* The engine with requests whose resource list may name a referee twice:  *)
(* Evento.__init__ keeps the list it is given.                             *)

\* the days of the requests: two a rest period apart and two in between
DiasL == {0, 1, 3, MaxDia}
InstantesL == {d * 24 + HoraInicio : d \in DiasL}

\* the Line referee L1 twice
EquipoRepetido == <<"P1", "L1", "L1", "F1">>

ListasL == {EquipoA, EquipoB, EquipoC, EquipoRepetido, EquipoCorto}

CandidatosL(evs) ==
    {Evento(IdNuevo(evs), NombrePartido, inicio,
            inicio + DURACION_ESTANDAR_HORAS, lista) :
        inicio \in InstantesL, lista \in ListasL}

\* nothing new, a new start with its standard end, or a new list alone
ArgsModificarL ==
    {<<None, None, None>>}
    \cup {<<Some(t), Some(t + DURACION_ESTANDAR_HORAS), None>> : t \in InstantesL}
    \cup {<<None, None, Some(l)>> : l \in ListasL}

PlanificarEventoL ==
    /\ EventoIds \ Ids(eventos) # {}
    /\ \E c \in CandidatosL(eventos) :
          Aplicar(planificar_evento(eventos, recursos, c))

ModificarEventoL ==
    \E id \in EventoIds : \E a \in ArgsModificarL :
        Aplicar(modificar_evento(eventos, recursos, id, a[1], a[2], a[3]))

NextListas == PlanificarEventoL \/ ModificarEventoL \/ EliminarEvento

SpecListas == Init /\ [][NextListas]_vars

----------------------------------------------------------------------------
(* Properties of the full validation and of the stored lists, under        *)
(* SpecListas                                                              *)

\* the candidates put to validation in the current state
Validables ==
    {Evento(IdFresco(eventos), NombrePartido, inicio,
            inicio + DURACION_ESTANDAR_HORAS, lista) :
        inicio \in InstantesL, lista \in ListasL}

SinRepetidos(lista) == Cardinality(Rango(lista)) = Len(lista)

\* the reasons of each kind in a list of reasons
DeEstadio(errores) ==
    {k \in 1..Len(errores) :
        errores[k][1] \in {"conflicto_de_horario_validador",
                           "estadio_entre_partidos"}}
DeArbitro(errores, r) ==
    {k \in 1..Len(errores) :
        errores[k][1] = "no_esta_disponible" /\ errores[k][2] = Nombre(r)}
DeRestriccion(errores, nombre) ==
    {k \in 1..Len(errores) :
        errores[k][1] = "restriccion" /\ errores[k][2] = nombre}

\* C21: validar_evento_completo never stops at the first failing check: it
\* runs the facility check, the rest check of every referee of the candidate
\* and the co-requisite check, so a candidate that violates several of them
\* gets at least one reason from each violated check, and the pass flag is
\* true iff the list of reasons is empty
C21_TodasLasRazones ==
    \A c \in Validables :
        LET v == validar_evento_completo(c, eventos)
        IN  /\ v.ok <=> (v.errores = <<>>)
            /\ (\E j \in 1..Len(eventos) : ConflictoDeEstadio(c, eventos[j]))
                   => DeEstadio(v.errores) # {}
            /\ ~validar_conflicto_estadio(c.inicio, c.fin, eventos).ok
                   => DeEstadio(v.errores) # {}
            /\ \A r \in Rango(c.recursos) \cap Arbitros :
                   ~LibreDe(r, c.inicio) => DeArbitro(v.errores, r) # {}
            /\ (SinRepetidos(c.recursos) /\ Desviadas(Rango(c.recursos)) # {})
                   => DeRestriccion(v.errores, NombreCoRequisito) # {}
            /\ ~RestriccionCoRequisito_validar(c.recursos, c.inicio, c.fin,
                                               eventos).ok
                   => DeRestriccion(v.errores, NombreCoRequisito) # {}

\* a candidate a Line referee short, a day after a stored event with two of
\* its referees, gets reasons of the facility, of both referees and of the
\* co-requisite
C21_Testigo ==
    \E c \in Validables :
        LET v == validar_evento_completo(c, eventos)
        IN  /\ DeEstadio(v.errores) # {}
            /\ DeArbitro(v.errores, "P1") # {}
            /\ DeArbitro(v.errores, "L1") # {}
            /\ DeRestriccion(v.errores, NombreCoRequisito) # {}
            /\ Len(v.errores) >= 4

\* C22: the list of reasons validar_evento_completo returns is deduplicated
\* by exact text: for every candidate, one that names the same referee twice
\* included, and every set of existing events, no reason occurs twice
C22_RazonesSinDuplicados ==
    \A c \in Validables :
        LET v == validar_evento_completo(c, eventos)
        IN  \A k, l \in 1..Len(v.errores) :
                (v.errores[k] = v.errores[l]) => (k = l)

\* the existing events that hold the referee and start fewer than 7 calendar
\* days from t
Choques(r, t) ==
    {j \in 1..Len(eventos) :
        /\ contiene_recurso(eventos[j], r)
        /\ Abs((t \div 24) - (eventos[j].inicio \div 24)) < 7}

\* the reasons a result of a rest check carries: none, one, or a list
RazonesDe(res) ==
    IF res.ok THEN {}
    ELSE IF res.mensaje[1] = "no_esta_disponible" THEN {res.mensaje}
    ELSE Rango(res.mensaje)

\* C23: the referee rest check does not short-circuit: every pair of a
\* referee of the candidate and an existing event with that referee fewer
\* than 7 calendar days away contributes its own reason, in
\* RestriccionExclusionMutua.validar and in validar_disponibilidad_arbitro
C23_UnaRazonPorChoque ==
    \A c \in Validables :
        \A r \in Rango(c.recursos) \cap Arbitros : \A j \in Choques(r, c.inicio) :
            /\ \E m \in RazonesDe(RestriccionExclusionMutua_validar(
                                      c.recursos, c.inicio, c.fin, eventos)) :
                   m[2] = Nombre(r) /\ m[3] = Fecha(eventos[j].inicio)
            /\ \E m \in RazonesDe(validar_disponibilidad_arbitro(
                                      r, c.inicio, c.fin, eventos)) :
                   m[2] = Nombre(r) /\ m[3] = Fecha(eventos[j].inicio)

\* C24: after any sequence of planificar_evento and modificar_evento calls,
\* no stored event has a resource id more than once in its list; a candidate
\* with the same Line referee twice is not taken as having two Line referees
C24_ListasSinRepetidos ==
    \A i \in 1..Len(eventos) : SinRepetidos(eventos[i].recursos)

----------------------------------------------------------------------------
(* Further properties of the horizon search, under SpecBusqueda *)

\* the referee lists that can be picked from what a search returned: any
\* Principal, any two distinct Line referees and any Fourth referee
Elecciones(arbitros) ==
    {<<p>> \o ListaDe(ls) \o <<f>> :
        p \in arbitros[PRINCIPAL],
        ls \in {S \in SUBSET arbitros[LINEA] : Cardinality(S) = 2},
        f \in arbitros[CUARTO]}

\* C26: a slot that buscar_proximo_horario returns can be booked: with any 1
\* Principal, any 2 distinct Line and any 1 Fourth referee of the returned
\* lists, planificar_evento of an event [t, t + duracion_horas) on the
\* unchanged registry is accepted
C26_HorarioReservable ==
    \A k \in 1..Len(salida) :
        (salida[k] # None) =>
            \A lista \in Elecciones(salida[k][1].arbitros) :
                planificar_evento(
                    eventos, recursos,
                    Evento(IdFresco(eventos), NombrePartido,
                           salida[k][1].fecha,
                           salida[k][1].fecha + caso.duracion,
                           lista)).ret.ok

\* a search has returned a slot fewer than 7 days after a stored event, with
\* the referees that are not in that event, and the event booked there with
\* them is stored
C26_Testigo ==
    /\ caso.fase = "terminada"
    /\ salida[1] # None
    /\ \E j \in 1..Len(eventos) :
          Abs(Fecha(salida[1][1].fecha) - Fecha(eventos[j].inicio))
              < DIAS_DESCANSO_ARBITROS
    /\ \E lista \in Elecciones(salida[1][1].arbitros) :
          LET r == planificar_evento(
                       eventos, recursos,
                       Evento(IdFresco(eventos), NombrePartido,
                              salida[1][1].fecha,
                              salida[1][1].fecha + caso.duracion, lista))
          IN  r.ret.ok /\ Len(r.eventos) = Len(eventos) + 1

\* C27: the timestamp buscar_proximo_horario returns is never earlier than
\* fecha_desde, time of day included, and is earlier than fecha_desde plus
\* max_dias_busqueda days
C27_DentroDelHorizonte ==
    \A k \in 1..Len(salida) :
        (salida[k] # None) =>
            /\ caso.desde <= salida[k][1].fecha
            /\ salida[k][1].fecha < caso.desde + 24 * caso.max_dias

----------------------------------------------------------------------------
(* Two create requests in either order, under SpecListas *)

\* the candidates of the two requests: a kickoff, 2 or 30 hours, and a list
ParesDeDatos ==
    [inicio : InstantesL, duracion : {DURACION_ESTANDAR_HORAS, 30},
     lista : ListasL]

CandidatoCon(evs, x) ==
    Evento(IdFresco(evs), NombrePartido, x.inicio, x.inicio + x.duracion,
           x.lista)

\* planificar_evento of x and then of y; whether both are accepted
AceptaAmbos(x, y) ==
    LET r1 == planificar_evento(eventos, recursos, CandidatoCon(eventos, x))
    IN  /\ r1.ret.ok
        /\ planificar_evento(r1.eventos, r1.recursos,
                             CandidatoCon(r1.eventos, y)).ret.ok

\* planificar_evento of x alone
AceptaSolo(x) ==
    planificar_evento(eventos, recursos, CandidatoCon(eventos, x)).ret.ok

\* C28: acceptance does not depend on the order of insertion: for any state
\* of the registry and any two candidates A and B, planificar_evento(A)
\* followed by planificar_evento(B) accepts both iff planificar_evento(B)
\* followed by planificar_evento(A) accepts both
C28_OrdenIndiferente ==
    \A x, y \in ParesDeDatos : AceptaAmbos(x, y) <=> AceptaAmbos(y, x)

\* with an event stored, two candidates that are accepted in both orders,
\* and two that are each acceptable alone but not together in either order
C28_Testigo ==
    /\ eventos # <<>>
    /\ \E x, y \in ParesDeDatos :
          x # y /\ AceptaAmbos(x, y) /\ AceptaAmbos(y, x)
    /\ \E x, y \in ParesDeDatos :
          /\ AceptaSolo(x) /\ AceptaSolo(y)
          /\ ~AceptaAmbos(x, y) /\ ~AceptaAmbos(y, x)

----------------------------------------------------------------------------
(* A modify request with nothing new, under Spec *)

\* C29: in every state reached from the empty registry through
\* planificar_evento, modificar_evento and eliminar_evento, modificar_evento
\* of a stored event with no new start, end or resources succeeds and leaves
\* the start, end and resources of that event and every other stored event
\* as they were
C29_ModificarSinCambios ==
    \A id \in Ids(eventos) :
        LET r == modificar_evento(eventos, recursos, id, None, None, None)
        IN  r.ret.ok /\ r.eventos = eventos /\ r.recursos = recursos

\* two events are stored, 2 calendar days apart, and the request is made of each
C29_Testigo ==
    /\ Len(eventos) = 2
    /\ Abs(Fecha(eventos[1].inicio) - Fecha(eventos[2].fin)) = DIAS_DESCANSO_ESTADIO
    /\ \A id \in Ids(eventos) :
          modificar_evento(eventos, recursos, id, None, None, None).ret.ok

----------------------------------------------------------------------------
(* Statistics (services/planificador.py), under SpecRecursos *)

obtener_estadisticas(evs, regs, now) ==
    LET eventos_futuros == SelectSeq(evs, LAMBDA e : e.inicio > now)
        eventos_pasados == SelectSeq(evs, LAMBDA e : e.inicio <= now)
    IN  [total_eventos |-> Len(evs),
         eventos_futuros |-> Len(eventos_futuros),
         eventos_pasados |-> Len(eventos_pasados),
         total_recursos |-> Cardinality(regs),
         arbitros_por_tipo |->
             [tipo \in {PRINCIPAL, LINEA, CUARTO} |->
                 Cardinality(obtener_recursos_por_tipo(regs, tipo))],
         proximo_partido |->
             IF eventos_futuros # <<>> THEN Some(eventos_futuros[1]) ELSE None]

\* C30: 'proximo_partido' of obtener_estadisticas is the stored event with
\* the earliest start among those that start strictly after the current
\* time, whatever the order of insertion, and is None iff there is none
C30_ProximoPartido ==
    LET proximo == obtener_estadisticas(eventos, recursos, ahora).proximo_partido
        futuros == {j \in 1..Len(eventos) : eventos[j].inicio > ahora}
    IN  /\ (proximo = None) <=> (futuros = {})
        /\ (proximo # None) =>
              \E j \in futuros :
                  /\ proximo[1] = eventos[j]
                  /\ \A k \in futuros : eventos[j].inicio <= eventos[k].inicio

\* PlanificadorEventos.cargar_desde_dict: both registries are cleared, then
\* the records are read in order; the first record that raises ends the load
cargar_desde_dict(evs, regs, data) ==
    LET rs == IF "recursos" \in DOMAIN data THEN data.recursos ELSE <<>>
        es == IF "eventos" \in DOMAIN data THEN data.eventos ELSE <<>>
        malos_r == {i \in 1..Len(rs) : ~RecursoCompleto(rs[i])}
        leidos_r == IF malos_r = {} THEN Len(rs) ELSE Min(malos_r) - 1
        mapa == {rs[i].id : i \in 1..leidos_r}
        malos_e == {i \in 1..Len(es) : ~EventoCompleto(es[i])}
        leidos_e == IF malos_r # {} THEN 0
                    ELSE IF malos_e = {} THEN Len(es) ELSE Min(malos_e) - 1
        cargados == [i \in 1..leidos_e |->
                        Evento(es[i].id, NombrePartido,
                               fromisoformat(es[i].fecha_inicio),
                               fromisoformat(es[i].fecha_fin),
                               SelectSeq(RecursosIds(es[i]),
                                         LAMBDA rid : rid \in mapa))]
    IN  Resultado(GuardarTodos(<<>>, cargados), mapa, "cargar_desde_dict",
                  malos_r = {} /\ malos_e = {}, FALSE)

----------------------------------------------------------------------------
(* Loading data with malformed records: the data is in caso, and salida    *)
(* holds what the load returned.                                           *)

\* records of resources: two well formed, one without id, one without nombre
RegistrosDeRecursos ==
    {_recurso_a_dict("P1"), _recurso_a_dict("L1"),
     [tipo_clase |-> "Arbitro", nombre |-> "L2", tipo_arbitro |-> LINEA],
     [id |-> "F1", tipo_clase |-> "Arbitro", tipo_arbitro |-> CUARTO]}

\* records of events: two well formed, one without id, one whose start does
\* not parse
RegistrosDeEventos ==
    {_evento_a_dict(Evento(1, NombrePartido, HoraInicio,
                           HoraInicio + DURACION_ESTANDAR_HORAS, <<"P1", "L1">>)),
     _evento_a_dict(Evento(2, NombrePartido, MaxDia * 24 + HoraInicio,
                           MaxDia * 24 + HoraInicio + DURACION_ESTANDAR_HORAS,
                           <<"P1">>)),
     [tipo |-> "Partido", nombre |-> NombrePartido,
      fecha_inicio |-> isoformat(HoraInicio),
      fecha_fin |-> isoformat(HoraInicio + DURACION_ESTANDAR_HORAS),
      recursos_ids |-> <<"P1">>,
      equipo_local |-> "Manchester City", equipo_visitante |-> "Visitante"],
     [id |-> 3, tipo |-> "Partido", nombre |-> NombrePartido,
      fecha_inicio |-> <<>>,
      fecha_fin |-> isoformat(HoraInicio + DURACION_ESTANDAR_HORAS),
      recursos_ids |-> <<"P1">>,
      equipo_local |-> "Manchester City", equipo_visitante |-> "Visitante"]}

\* the lists of up to MaxRegistros records
MaxRegistros == 2
ListasDe(S) == UNION {[1..n -> S] : n \in 0..MaxRegistros}

InitCarga ==
    /\ eventos \in {<<>>, <<Evento(1, NombrePartido, HoraInicio,
                                   HoraInicio + DURACION_ESTANDAR_HORAS,
                                   EquipoB)>>}
    /\ recursos \in {{}, Rango(EquipoB)}
    /\ ahora = 0
    /\ caso \in [recursos : ListasDe(RegistrosDeRecursos),
                 eventos : ListasDe(RegistrosDeEventos)]
    /\ salida = <<>>

\* cargar_datos: the planner becomes the one GestorPersistencia.cargar returns
CargarArchivo ==
    /\ salida = <<>>
    /\ LET r == cargar(caso)
       IN  IF r # None
               THEN /\ eventos' = r[1].eventos
                    /\ recursos' = r[1].recursos
                    /\ salida' = <<[op |-> "cargar", ok |-> TRUE]>>
               ELSE /\ UNCHANGED <<eventos, recursos>>
                    /\ salida' = <<[op |-> "cargar", ok |-> FALSE]>>
    /\ UNCHANGED <<ahora, caso>>

CargarDesdeDict ==
    /\ salida = <<>>
    /\ LET r == cargar_desde_dict(eventos, recursos, caso)
       IN  /\ eventos' = r.eventos
           /\ recursos' = r.recursos
           /\ salida' = <<[op |-> r.ret.op, ok |-> r.ret.ok]>>
    /\ UNCHANGED <<ahora, caso>>

NextCarga == CargarArchivo \/ CargarDesdeDict

SpecCarga == InitCarga /\ [][NextCarga]_vars

\* the ids of the well-formed records of the data
RecursosBienFormados ==
    {caso.recursos[i].id :
        i \in {k \in 1..Len(caso.recursos) :
                  {"id", "nombre"} \subseteq DOMAIN caso.recursos[k]}}
EventosBienFormados ==
    {caso.eventos[i].id :
        i \in {k \in 1..Len(caso.eventos) :
                  /\ "id" \in DOMAIN caso.eventos[k]
                  /\ caso.eventos[k].fecha_inicio # <<>>}}

\* C25: when the data holds a malformed record (a resource or an event
\* without a required field, or an event whose timestamp does not parse),
\* the load skips that record and loads every well-formed record; the load
\* as a whole does not fail and the registries are not left partly cleared
C25_CargaSaltaMalformados ==
    (salida # <<>>) =>
        /\ salida[1].ok
        /\ recursos = RecursosBienFormados
        /\ Ids(eventos) = EventosBienFormados

====
